---- MODULE Spec2Model ----
(***************************************************************************)
(* A model of the bidirectional map (bimap.h) and of the treap engine it   *)
(* is built on (treap.h).  Memory is an arena of pair nodes; every node    *)
(* carries two independent sets of links (left, right, parent, random_key),*)
(* one per side.  Pointers are integers: 0 is nullptr, 1..MaxNodes are the *)
(* pair nodes, and -c is the address of the head (sentinel) node that      *)
(* container c keeps on each side.                                         *)
(***************************************************************************)
EXTENDS Integers, FiniteSets, Sequences, TLC

\* ------------------------------------------------------------------ bounds
MaxKey == 2      \* one container: the keys are 0..MaxKey on both sides
MaxPrio == 1     \* rand() returns 0..MaxPrio
MaxNodes == 4    \* the nodes that can be allocated at a time
MaxKey2 == 1     \* two containers: the keys are 0..MaxKey2 on both sides
MaxPrio2 == 0    \* two containers, beyond inserts: rand() returns 0..MaxPrio2
MaxSize == 2     \* two containers, swaps and moves: _size stays within -1..MaxSize
MaxNodes2 == 3   \* two containers, swaps and moves: the nodes allocated at a time

Keys == 0..MaxKey
Keys2 == 0..MaxKey2
Prios2 == 0..MaxPrio2
Prios == 0..MaxPrio
Nodes == 1..MaxNodes
Containers == {1, 2}
Sides == {"L", "R"}

\* --------------------------------------------------------------- pointers
NULL == 0
head_node(c) == 0 - c
IsHead(p) == p < 0
IsNode(p) == p > 0
Owner(p) == 0 - p

\* right_t dflt{} / left_t dflt{} for the integral key types modelled here
Dflt == 0

\* std::less, the default CompareLeft / CompareRight
Less(a, b) == a < b

\* a freshly constructed treap_base_node with random_key pr
FreshLinks(pr) == [left |-> NULL, right |-> NULL, parent |-> NULL, prio |-> pr]

VARIABLES
  alloc,   \* the set of pair nodes currently allocated (new / delete)
  lkey,    \* lkey[n]: the key of n's Left_Tag base
  rkey,    \* rkey[n]: the key of n's Right_Tag base
  hp,      \* hp[s][n]: the links and random_key of n's base on side s
  root,    \* root[s][c]: head_node.left of container c's treap on side s
  size,    \* size[c]: _size of container c
  live,    \* the containers that have been constructed
  ub,      \* TRUE once an operation has had undefined behaviour
  call     \* the last call made: its name, the container(s) and its outcome

vars == <<alloc, lkey, rkey, hp, root, size, live, ub, call>>

\* ---------------------------------------------------------- treap: fields
\* A tree view T = [h, k, rt]: the links of one side, that side's keys, and
\* head_node.left of every container's treap on that side.
LeftOf(T, p) == IF IsHead(p) THEN T.rt[Owner(p)] ELSE T.h[p].left
RightOf(T, p) == IF IsHead(p) THEN NULL ELSE T.h[p].right
ParentOf(T, p) == IF IsHead(p) THEN NULL ELSE T.h[p].parent

SetLeft(T, p, v) ==
  IF IsHead(p) THEN [T EXCEPT !.rt[Owner(p)] = v] ELSE [T EXCEPT !.h[p].left = v]
SetRight(T, p, v) == [T EXCEPT !.h[p].right = v]
SetParent(T, p, v) == [T EXCEPT !.h[p].parent = v]

\* `if (p) p->parent = v`
SetParentIf(T, p, v) == IF p # NULL THEN SetParent(T, p, v) ELSE T

\* With(v, F) is F(v) with v evaluated once: LET x == v IN F(x)
With(v, F(_)) == CHOOSE y \in {F(x) : x \in {v}} : TRUE

\* ----------------------------------------------------- treap: split, merge
RECURSIVE split(_, _, _)
split(T, rootp, key) ==
  IF rootp = NULL THEN [T |-> T, l |-> NULL, r |-> NULL]
  ELSE IF Less(T.k[rootp], key) THEN
    With(split(T, T.h[rootp].right, key), LAMBDA s :
      [T |-> SetParentIf(SetParentIf(SetRight(s.T, rootp, s.l), s.l, rootp), s.r, NULL),
       l |-> rootp, r |-> s.r])
  ELSE
    With(split(T, T.h[rootp].left, key), LAMBDA s :
      [T |-> SetParentIf(SetParentIf(SetLeft(s.T, rootp, s.r), s.r, rootp), s.l, NULL),
       l |-> s.l, r |-> rootp])

\* the priority comparison of merge the other way round
MergeTakesLower(p1, p2) == p1 < p2

\* the priority comparison of merge: t1 becomes the root iff this holds
MergeTakesFirst(p1, p2) == p1 > p2

RECURSIVE merge(_, _, _)
merge(T, t1, t2) ==
  IF t1 = NULL THEN [T |-> SetParentIf(T, t2, NULL), t |-> t2]
  ELSE IF t2 = NULL THEN [T |-> SetParentIf(T, t1, NULL), t |-> t1]
  ELSE IF MergeTakesFirst(T.h[t1].prio, T.h[t2].prio) THEN
    With(merge(T, T.h[t1].right, t2), LAMBDA m :
      [T |-> SetParentIf(SetRight(m.T, t1, m.t), m.t, t1), t |-> t1])
  ELSE
    With(merge(T, t1, T.h[t2].left), LAMBDA m :
      [T |-> SetParentIf(SetLeft(m.T, t2, m.t), m.t, t2), t |-> t2])

\* `head_node.left = t; if (head_node.left) head_node.left->parent = &head_node`
Reattach(T, c, t) == SetParentIf(SetLeft(T, head_node(c), t), t, head_node(c))

\* treap::insert on container c's treap; the result iterator is the node itself
treap_insert(T, c, node) ==
  With(split(T, T.rt[c], T.k[node]), LAMBDA s :
  With(merge(s.T, s.l, node), LAMBDA m1 :
  With(merge(m1.T, m1.t, s.r), LAMBDA m2 :
    Reattach(m2.T, c, m2.t))))

RECURSIVE leftmost(_, _)
leftmost(T, p) == IF LeftOf(T, p) # NULL THEN leftmost(T, LeftOf(T, p)) ELSE p

RECURSIVE rightmost(_, _)
rightmost(T, p) == IF RightOf(T, p) # NULL THEN rightmost(T, RightOf(T, p)) ELSE p

\* the iterator treap::remove returns once removed_node is spliced out: rgt is
\* removed_node->right, atRoot is `removed_node == t2`, par its parent
RemoveNext(rgt, atRoot, par) ==
  IF rgt # NULL THEN rgt ELSE IF atRoot THEN NULL ELSE par

\* the splice of treap::remove: s is the split, rm the minimum of s.r, whose
\* key compares equal to the key removed
Splice(s, c, rm) ==
  With(s.T.h[rm].parent, LAMBDA par :
  With(s.T.h[rm].right, LAMBDA rgt :
  With(IF rm = s.r \/ par = NULL THEN s.T ELSE SetLeft(s.T, par, rgt), LAMBDA T1 :
  With(merge(SetParentIf(T1, rgt, par), s.l, IF rm = s.r THEN rgt ELSE s.r), LAMBDA m :
  With(RemoveNext(rgt, rm = s.r, par), LAMBDA next :
    [T |-> Reattach(m.T, c, m.t),
     ret |-> IF next = NULL THEN head_node(c) ELSE next,
     ub |-> (rm # s.r /\ par = NULL)])))))

\* treap::remove: [T, ret, ub].  ub: a null pointer is dereferenced (the part
\* at and after the key is empty).  When the minimum of that part does not
\* compare equal to the key, the code returns end() with the tree left split.
treap_remove(T, c, key) ==
  With(split(T, T.rt[c], key), LAMBDA s :
    IF s.r = NULL THEN [T |-> s.T, ret |-> NULL, ub |-> TRUE]
    ELSE With(leftmost(s.T, s.r), LAMBDA rm :
      IF Less(s.T.k[rm], key) \/ Less(key, s.T.k[rm])
      THEN [T |-> s.T, ret |-> head_node(c), ub |-> FALSE]
      ELSE Splice(s, c, rm)))

RECURSIVE existFrom(_, _, _, _)
existFrom(T, c, buffer, key) ==
  IF buffer = NULL THEN head_node(c)
  ELSE IF Less(T.k[buffer], key) THEN existFrom(T, c, T.h[buffer].right, key)
  ELSE IF Less(key, T.k[buffer]) THEN existFrom(T, c, T.h[buffer].left, key)
  ELSE buffer

\* treap::exist
exist(T, c, key) == existFrom(T, c, T.rt[c], key)

\* lower_bound without the descent to the leftmost node of the upper part
lower_boundNoDescent(T, c, key) ==
  With(split(T, T.rt[c], key), LAMBDA s :
  With(merge(s.T, s.l, s.r), LAMBDA m :
    [T |-> Reattach(m.T, c, m.t),
     ret |-> IF s.r = NULL THEN head_node(c) ELSE s.r]))

\* treap::lower_bound: [T, ret]
lower_bound(T, c, key) ==
  With(split(T, T.rt[c], key), LAMBDA s :
  With(IF s.r # NULL THEN leftmost(s.T, s.r) ELSE NULL, LAMBDA lower_b :
  With(merge(s.T, s.l, s.r), LAMBDA m :
    [T |-> Reattach(m.T, c, m.t),
     ret |-> IF lower_b = NULL THEN head_node(c) ELSE lower_b])))

\* the position treap::upper_bound settles on: mn is the minimum of the part
\* at and after the key, read in the split tree T
UpperPick(T, mn, key) ==
  IF ~Less(T.k[mn], key) /\ ~Less(key, T.k[mn])
  THEN IF T.h[mn].parent # NULL THEN T.h[mn].parent
       ELSE IF T.h[mn].right # NULL THEN T.h[mn].right
       ELSE mn
  ELSE mn

\* upper_bound without the merge of the two parts back into the tree
upper_boundNoMerge(T, c, key) ==
  With(split(T, T.rt[c], key), LAMBDA s :
  With(IF s.r = NULL THEN NULL ELSE UpperPick(s.T, leftmost(s.T, s.r), key), LAMBDA upper_b :
    [T |-> s.T,
     ret |-> IF upper_b = NULL THEN head_node(c) ELSE upper_b]))

\* treap::upper_bound: [T, ret]
upper_bound(T, c, key) ==
  With(split(T, T.rt[c], key), LAMBDA s :
  With(merge(s.T, s.l, s.r), LAMBDA m :
  With(IF s.r = NULL THEN NULL ELSE UpperPick(s.T, leftmost(s.T, s.r), key), LAMBDA upper_b :
    [T |-> Reattach(m.T, c, m.t),
     ret |-> IF upper_b = NULL THEN head_node(c) ELSE upper_b])))

\* begin at the root instead of the leftmost node
beginAtRoot(T, c) == IF T.rt[c] = NULL THEN head_node(c) ELSE T.rt[c]

\* treap::begin / treap::end
begin(T, c) == IF T.rt[c] = NULL THEN head_node(c) ELSE leftmost(T, T.rt[c])
end(T, c) == head_node(c)

\* ------------------------------------------------------- treap: iterators
RECURSIVE climbRight(_, _, _)
climbRight(T, m, temp) ==
  IF temp # NULL /\ m = RightOf(T, temp)
  THEN climbRight(T, temp, ParentOf(T, temp))
  ELSE <<m, temp>>

\* inc without the climb over the ancestors p is in the right subtree of
incNoClimb(T, p) ==
  IF ParentOf(T, p) = NULL THEN p
  ELSE IF RightOf(T, p) # NULL THEN leftmost(T, RightOf(T, p))
  ELSE ParentOf(T, p)

\* iterator::operator++ (the iterator must not be null)
inc(T, p) ==
  IF ParentOf(T, p) = NULL THEN p
  ELSE IF RightOf(T, p) # NULL THEN leftmost(T, RightOf(T, p))
  ELSE LET cl == climbRight(T, p, ParentOf(T, p))
       IN IF RightOf(T, cl[1]) # cl[2] THEN cl[2] ELSE cl[1]

RECURSIVE climbLeft(_, _, _)
climbLeft(T, m, temp) ==
  IF temp # NULL /\ m = LeftOf(T, temp)
  THEN climbLeft(T, temp, ParentOf(T, temp))
  ELSE <<m, temp>>

\* iterator::operator-- (the iterator must not be null)
dec(T, p) ==
  IF LeftOf(T, p) # NULL THEN rightmost(T, LeftOf(T, p))
  ELSE IF ParentOf(T, p) = NULL THEN NULL
  ELSE LET cl == climbLeft(T, p, ParentOf(T, p))
       IN IF LeftOf(T, cl[1]) # cl[2] THEN cl[2] ELSE cl[1]

\* ------------------------------------------------------------ bimap: state
\* A program state st = [alloc, lkey, rkey, hp, root, size, ub].  _size is a
\* size_t: the integer kept here stands for its residue modulo 2^64, so that
\* -1 is the value 0 - 1 wraps to; only equality with 0 and with another
\* _size is ever read, and both agree with the residues in this range.
View(st, s) ==
  [h |-> st.hp[s], k |-> IF s = "L" THEN st.lkey ELSE st.rkey, rt |-> st.root[s]]
Put(st, s, T) == [st EXCEPT !.hp[s] = T.h, !.root[s] = T.rt]
Flip(s) == IF s = "L" THEN "R" ELSE "L"
KeyOf(st, s, n) == IF s = "L" THEN st.lkey[n] ELSE st.rkey[n]
Undefined(st) == [st EXCEPT !.ub = TRUE]

empty(st, c) == st.size[c] = 0

\* find_left / find_right, begin_left / begin_right, end_left / end_right
find(st, c, s, key) == exist(View(st, s), c, key)
find_left(st, c, key) == find(st, c, "L", key)
find_right(st, c, key) == find(st, c, "R", key)
begin_side(st, c, s) == begin(View(st, s), c)
end_side(st, c, s) == end(View(st, s), c)

\* `new node_t(...)`: the allocator hands out any free node; the least one is
\* taken, all free nodes being interchangeable
NewNode(st) == CHOOSE n \in Nodes \ st.alloc : \A m \in Nodes \ st.alloc : n <= m
CanAlloc(st) == st.alloc # Nodes

\* InsertRejects with the lookup on the right side left out
InsertRejectsLeftOnly(st, c, l, r) ==
  ~empty(st, c) /\ find_left(st, c, l) # end_side(st, c, "L")

\* the guard of insert: TRUE when the pair is rejected
InsertRejects(st, c, l, r) ==
  ~empty(st, c) /\ (find_left(st, c, l) # end_side(st, c, "L")
                    \/ find_right(st, c, r) # end_side(st, c, "R"))

\* `new node_t(left, right)` at address ptr, with the random_key draws pl, pr
Allocate(st, ptr, l, r, pl, pr) ==
  [st EXCEPT !.alloc = @ \cup {ptr}, !.lkey[ptr] = l, !.rkey[ptr] = r,
             !.hp["L"][ptr] = FreshLinks(pl), !.hp["R"][ptr] = FreshLinks(pr)]

\* Link with the insert into the right treap left out
LinkLeftOnly(st, c, ptr) ==
  With(Put(st, "L", treap_insert(View(st, "L"), c, ptr)), LAMBDA s1 :
    [s1 EXCEPT !.size[c] = @ + 1])

\* the two treap inserts of bimap::insert, then `_size++`
Link(st, c, ptr) ==
  With(Put(st, "L", treap_insert(View(st, "L"), c, ptr)), LAMBDA s1 :
  With(Put(s1, "R", treap_insert(View(s1, "R"), c, ptr)), LAMBDA s2 :
    [s2 EXCEPT !.size[c] = @ + 1]))

\* bimap::insert with the two random_key draws pl, pr: [st, ret]
insert(st, c, l, r, pl, pr) ==
  IF InsertRejects(st, c, l, r) THEN [st |-> st, ret |-> end_side(st, c, "L")]
  ELSE With(NewNode(st), LAMBDA ptr :
         [st |-> Link(Allocate(st, ptr, l, r, pl, pr), c, ptr), ret |-> ptr])

\* `delete ptr`: the node's storage is gone; its slot is reset, which is what
\* the next `new` in this slot does before anything reads it
Delete(st, n) ==
  [st EXCEPT !.alloc = @ \ {n}, !.lkey[n] = 0, !.rkey[n] = 0,
             !.hp["L"][n] = FreshLinks(0), !.hp["R"][n] = FreshLinks(0)]

\* ErasedNext taking the right child, else the parent, for the successor
ErasedNextChild(T, it) ==
  IF RightOf(T, it) # NULL THEN RightOf(T, it) ELSE ParentOf(T, it)

\* how erase computes the iterator it returns: `it++` before the removal
ErasedNext(T, it) == inc(T, it)

\* Unlink with the remove from the other treap left out
UnlinkKeepsOther(st, c, s, it, kOther, nxt) ==
  With(Delete(st, it), LAMBDA s3 :
    [st |-> [s3 EXCEPT !.size[c] = @ - 1], ret |-> nxt])

\* the second remove of erase, `delete` and `_size--`
Unlink(st, c, s, it, kOther, nxt) ==
  With(treap_remove(View(st, Flip(s)), c, kOther), LAMBDA r2 :
    IF r2.ub THEN [st |-> Undefined(Put(st, Flip(s), r2.T)), ret |-> nxt]
    ELSE With(Delete(Put(st, Flip(s), r2.T), it), LAMBDA s3 :
           [st |-> [s3 EXCEPT !.size[c] = @ - 1], ret |-> nxt]))

\* the two removes go by key: when another node of the container holds an equal
\* key they can splice that node out and leave `it` in a tree.  `delete it`
\* then leaves a pointer to freed storage in the tree, and the next traversal
\* of the container dereferences it.
RECURSIVE Below(_, _, _)
Below(T, p, n) ==
  IF p = NULL THEN FALSE
  ELSE p = n \/ Below(T, T.h[p].left, n) \/ Below(T, T.h[p].right, n)

Linked(st, c, n) ==
  Below(View(st, "L"), st.root["L"][c], n) \/ Below(View(st, "R"), st.root["R"][c], n)

\* erase_left(left_iterator) for s = "L", erase_right(right_iterator) for
\* s = "R": [st, ret].  Dereferencing a head node or nullptr is undefined.
erase_it(st, c, s, it) ==
  IF ~IsNode(it) THEN [st |-> Undefined(st), ret |-> it]
  ELSE
    With(ErasedNext(View(st, s), it), LAMBDA nxt :
    With(treap_remove(View(st, s), c, KeyOf(st, s, it)), LAMBDA r1 :
      IF r1.ub THEN [st |-> Undefined(Put(st, s, r1.T)), ret |-> nxt]
      ELSE With(Unlink(Put(st, s, r1.T), c, s, it, KeyOf(st, Flip(s), it), nxt), LAMBDA u :
             IF Linked(u.st, c, it) THEN [st |-> Undefined(u.st), ret |-> nxt] ELSE u)))

\* erase_left(key) / erase_right(key): [st, ret] with ret the returned bool
erase_key(st, c, s, key) ==
  With(find(st, c, s, key), LAMBDA it :
    IF it = end_side(st, c, s) THEN [st |-> st, ret |-> FALSE]
    ELSE [st |-> erase_it(st, c, s, it).st, ret |-> TRUE])

\* erase_left(first, last) / erase_right(first, last): [st, ret]
RECURSIVE erase_range(_, _, _, _, _)
erase_range(st, c, s, first, last) ==
  IF st.ub \/ first = last THEN [st |-> st, ret |-> last]
  ELSE With(erase_it(st, c, s, first), LAMBDA e :
         erase_range(e.st, c, s, e.ret, last))

\* bimap::clear
clear(st, c) ==
  erase_range(st, c, "L", begin_side(st, c, "L"), end_side(st, c, "L")).st

\* at without the flip to the other side
atNoFlip(st, c, s, key) ==
  With(find(st, c, s, key), LAMBDA it :
    IF it = end_side(st, c, s) THEN [found |-> FALSE, ret |-> 0]
    ELSE [found |-> TRUE, ret |-> KeyOf(st, s, it)])

\* at_left / at_right: [found, ret]; ~found is the std::out_of_range throw
at(st, c, s, key) ==
  With(find(st, c, s, key), LAMBDA it :
    IF it = end_side(st, c, s) THEN [found |-> FALSE, ret |-> 0]
    ELSE [found |-> TRUE, ret |-> KeyOf(st, Flip(s), it)])

\* EvictAndInsert without the eviction
InsertWithoutEvict(st, c, s, l, r, pl, pr) ==
  With(insert(st, c, l, r, pl, pr), LAMBDA ins :
    IF ~IsNode(ins.ret) THEN [st |-> Undefined(ins.st), ret |-> 0]
    ELSE [st |-> ins.st, ret |-> KeyOf(ins.st, s, ins.ret)])

\* the tail of at_left_or_default / at_right_or_default: the pair holding the
\* default on side s (if any) is erased, then (l, r) is inserted and the key on
\* side s of the new pair returned
EvictAndInsert(st, c, s, l, r, pl, pr) ==
  With(find(st, c, s, Dflt), LAMBDA it2 :
  With(IF it2 # end_side(st, c, s) THEN erase_it(st, c, s, it2).st ELSE st, LAMBDA s1 :
    IF s1.ub THEN [st |-> s1, ret |-> 0]
    ELSE With(insert(s1, c, l, r, pl, pr), LAMBDA ins :
           IF ~IsNode(ins.ret) THEN [st |-> Undefined(ins.st), ret |-> 0]
           ELSE [st |-> ins.st, ret |-> KeyOf(ins.st, s, ins.ret)])))

\* at_left_or_default: [st, ret]
at_left_or_default(st, c, key, pl, pr) ==
  With(find_left(st, c, key), LAMBDA it :
    IF it # end_side(st, c, "L") THEN [st |-> st, ret |-> st.rkey[it]]
    ELSE EvictAndInsert(st, c, "R", key, Dflt, pl, pr))

\* at_right_or_default: [st, ret]
at_right_or_default(st, c, key, pl, pr) ==
  With(find_right(st, c, key), LAMBDA it :
    IF it # end_side(st, c, "R") THEN [st |-> st, ret |-> st.lkey[it]]
    ELSE EvictAndInsert(st, c, "L", Dflt, key, pl, pr))

\* lower_bound_left/right, upper_bound_left/right: [st, ret]
lower_bound_side(st, c, s, key) ==
  With(lower_bound(View(st, s), c, key), LAMBDA r :
    [st |-> Put(st, s, r.T), ret |-> r.ret])
upper_bound_side(st, c, s, key) ==
  With(upper_bound(View(st, s), c, key), LAMBDA r :
    [st |-> Put(st, s, r.T), ret |-> r.ret])

\* ------------------------------------------------- bimap: two containers
\* treap::swap: the roots are exchanged and re-parented to their new heads
treap_swap(T, a, b) ==
  With(T.rt[a], LAMBDA rootp : Reattach(Reattach(T, a, T.rt[b]), b, rootp))

\* bimap::swap: the two treaps are swapped; _size is not touched
swap(st, a, b) ==
  With(Put(st, "L", treap_swap(View(st, "L"), a, b)), LAMBDA s1 :
    Put(s1, "R", treap_swap(View(s1, "R"), a, b)))

\* copy_loop whose catch block only breaks, without the clear()
RECURSIVE copy_loopNoRollback(_, _, _, _, _, _, _)
copy_loopNoRollback(st, c, o, it, ps, i, fail) ==
  IF st.ub \/ it = end_side(st, o, "L") THEN st
  ELSE IF ~IsNode(it) \/ i > Len(ps) THEN Undefined(st)
  ELSE IF i = fail /\ ~InsertRejects(st, c, st.lkey[it], st.rkey[it]) THEN st
  ELSE With(insert(st, c, st.lkey[it], st.rkey[it], ps[i][1], ps[i][2]), LAMBDA ins :
         copy_loopNoRollback(ins.st, c, o, inc(View(ins.st, "L"), it), ps, i + 1, fail))

\* the loop of the copy constructor and of copy assignment: it walks the left
\* side of o from it, inserting each pair into c; ps[i] are the random_key draws
\* of the i-th insert, and fail is the insert whose `new node_t` throws
\* std::bad_alloc (0: none does), which `catch (...) { clear(); break; }`
\* handles.  `*it` at a head node or nullptr is undefined.
RECURSIVE copy_loop(_, _, _, _, _, _, _)
copy_loop(st, c, o, it, ps, i, fail) ==
  IF st.ub \/ it = end_side(st, o, "L") THEN st
  ELSE IF ~IsNode(it) \/ i > Len(ps) THEN Undefined(st)
  ELSE IF i = fail /\ ~InsertRejects(st, c, st.lkey[it], st.rkey[it]) THEN clear(st, c)
  ELSE With(insert(st, c, st.lkey[it], st.rkey[it], ps[i][1], ps[i][2]), LAMBDA ins :
         copy_loop(ins.st, c, o, inc(View(ins.st, "L"), it), ps, i + 1, fail))

\* bimap(): both treaps empty, _size{0}
construct(st, c) ==
  [st EXCEPT !.root["L"][c] = NULL, !.root["R"][c] = NULL, !.size[c] = 0]

\* bimap(bimap const& other): c is constructed empty, then filled from o
copy_construct(st, c, o, ps, fail) ==
  With(construct(st, c), LAMBDA s0 :
    copy_loop(s0, c, o, begin_side(s0, o, "L"), ps, 1, fail))

\* the early return of both assignment operators
AssignReturnsEarly(st, c, o) == c = o \/ empty(st, o)

\* operator=(bimap const& other)
copy_assign(st, c, o, ps, fail) ==
  IF AssignReturnsEarly(st, c, o) THEN st
  ELSE With(clear(st, c), LAMBDA s0 :
         copy_loop(s0, c, o, begin_side(s0, o, "L"), ps, 1, fail))

\* treap(treap&& other) and treap::operator=(treap&&): head_node.left is taken
\* over and other.head_node.left set to nullptr; no parent link is written
treap_move(T, c, o) == With(T.rt[o], LAMBDA rootp : [T EXCEPT !.rt[c] = rootp, !.rt[o] = NULL])

\* the member-wise part of the move constructor and of move assignment
take_over(st, c, o) ==
  With([st EXCEPT !.size[c] = st.size[o]], LAMBDA s0 :
  With(Put(s0, "L", treap_move(View(s0, "L"), c, o)), LAMBDA s1 :
    Put(s1, "R", treap_move(View(s1, "R"), c, o))))

\* bimap(bimap&& other)
move_construct(st, c, o) == take_over(st, c, o)

\* operator=(bimap&& other)
move_assign(st, c, o) ==
  IF AssignReturnsEarly(st, c, o) THEN st
  ELSE With(clear(st, c), LAMBDA s0 : IF s0.ub THEN s0 ELSE take_over(s0, c, o))

\* the loop of operator==: [ret, ub]
RECURSIVE equal_loop(_, _, _, _, _)
equal_loop(st, a, b, bl, br) ==
  IF bl = end_side(st, a, "L") \/ br = end_side(st, b, "L") THEN [ret |-> TRUE, ub |-> FALSE]
  ELSE IF ~IsNode(bl) \/ ~IsNode(br) THEN [ret |-> FALSE, ub |-> TRUE]
  ELSE IF st.lkey[bl] = st.lkey[br] /\ st.rkey[bl] = st.rkey[br]
       THEN equal_loop(st, a, b, inc(View(st, "L"), bl), inc(View(st, "L"), br))
       ELSE [ret |-> FALSE, ub |-> FALSE]

\* operator==(bimap const&, bimap const&): [ret, ub]
equal(st, a, b) ==
  IF st.size[a] # st.size[b] THEN [ret |-> FALSE, ub |-> FALSE]
  ELSE equal_loop(st, a, b, begin_side(st, a, "L"), begin_side(st, b, "L"))

\* --------------------------------------------------------------- the state
St ==
  [alloc |-> alloc, lkey |-> lkey, rkey |-> rkey, hp |-> hp, root |-> root,
   size |-> size, ub |-> ub]

\* Addresses carry no meaning beyond equality, so states are kept up to a
\* renaming of the nodes: the allocated nodes are numbered 1..k in the order
\* of their (left key, right key, address).
Before(st, m, n) ==
  \/ st.lkey[m] < st.lkey[n]
  \/ st.lkey[m] = st.lkey[n] /\ st.rkey[m] < st.rkey[n]
  \/ st.lkey[m] = st.lkey[n] /\ st.rkey[m] = st.rkey[n] /\ m < n

\* the nodes of S in that order, as a sequence
RECURSIVE Sorted(_, _)
Sorted(st, S) ==
  IF S = {} THEN <<>>
  ELSE LET n == CHOOSE x \in S : \A y \in S \ {x} : Before(st, x, y)
       IN <<n>> \o Sorted(st, S \ {n})

RECURSIVE Ascending(_)
Ascending(S) ==
  IF S = {} THEN <<>>
  ELSE LET n == CHOOSE x \in S : \A y \in S : x <= y
       IN <<n>> \o Ascending(S \ {n})

\* Order(st)[i] is the node that becomes node i
Order(st) == Sorted(st, st.alloc) \o Ascending(Nodes \ st.alloc)

IndexIn(g, p) == CHOOSE i \in Nodes : g[i] = p
RenamedPtr(g, p) == IF IsNode(p) THEN IndexIn(g, p) ELSE p
RenamePtr(st, p) == With(Order(st), LAMBDA g : RenamedPtr(g, p))

RECURSIVE RenamedLinks(_, _, _)
RenamedLinks(h, g, i) ==
  IF i > MaxNodes THEN <<>>
  ELSE <<[left |-> RenamedPtr(g, h[g[i]].left),
          right |-> RenamedPtr(g, h[g[i]].right),
          parent |-> RenamedPtr(g, h[g[i]].parent),
          prio |-> h[g[i]].prio]>> \o RenamedLinks(h, g, i + 1)

RECURSIVE RenamedKeys(_, _, _)
RenamedKeys(k, g, i) ==
  IF i > MaxNodes THEN <<>> ELSE <<k[g[i]]>> \o RenamedKeys(k, g, i + 1)

RenameBy(st, g) ==
  [alloc |-> 1..Cardinality(st.alloc),
   lkey |-> RenamedKeys(st.lkey, g, 1),
   rkey |-> RenamedKeys(st.rkey, g, 1),
   hp |-> [L |-> RenamedLinks(st.hp["L"], g, 1), R |-> RenamedLinks(st.hp["R"], g, 1)],
   root |-> [L |-> <<RenamedPtr(g, st.root["L"][1]), RenamedPtr(g, st.root["L"][2])>>,
             R |-> <<RenamedPtr(g, st.root["R"][1]), RenamedPtr(g, st.root["R"][2])>>],
   size |-> st.size,
   ub |-> st.ub]

\* the allocated nodes are 1..k already and in order
Canonical(st) ==
  /\ st.alloc = 1..Cardinality(st.alloc)
  /\ \A n \in st.alloc : n + 1 \in st.alloc => Before(st, n, n + 1)

Rename(st) ==
  IF Canonical(st) THEN st ELSE With(Order(st), LAMBDA g : RenameBy(st, g))

Commit(st) ==
  \E r \in {Rename(st)} :
     /\ alloc' = r.alloc
     /\ lkey' = r.lkey
     /\ rkey' = r.rkey
     /\ hp' = r.hp
     /\ root' = r.root
     /\ size' = r.size
     /\ ub' = r.ub

Called(name, c, flag) == call' = [op |-> name, c |-> c, o |-> c, flag |-> flag]
Called2(name, c, o, flag) == call' = [op |-> name, c |-> c, o |-> o, flag |-> flag]

\* the nodes of the subtree at p, and its keys in in-order
RECURSIVE Reach(_, _)
Reach(T, p) ==
  IF p = NULL THEN {} ELSE {p} \cup Reach(T, T.h[p].left) \cup Reach(T, T.h[p].right)

RECURSIVE InOrder(_, _)
InOrder(T, p) ==
  IF p = NULL THEN <<>>
  ELSE InOrder(T, T.h[p].left) \o <<p>> \o InOrder(T, T.h[p].right)

\* the nodes of container c's tree on side s: the positions a caller can hold
\* a valid non-end iterator to
TreeNodes(st, c, s) == Reach(View(st, s), st.root[s][c])

\* bimap(CompareLeft, CompareRight): an empty container 1
Init ==
  /\ alloc = {}
  /\ lkey = [n \in Nodes |-> 0]
  /\ rkey = [n \in Nodes |-> 0]
  /\ hp = [s \in Sides |-> [n \in Nodes |-> FreshLinks(0)]]
  /\ root = [s \in Sides |-> [c \in Containers |-> NULL]]
  /\ size = [c \in Containers |-> 0]
  /\ live = {1}
  /\ ub = FALSE
  /\ call = [op |-> "construct", c |-> 1, o |-> 1, flag |-> TRUE]

\* ----------------------------------------------------------------- actions
\* Each action is one call of a public member function on container c, with
\* its arguments drawn from the keys, the positions of the container and the
\* values rand() can return.  call records which function ran and its outcome
\* (flag: the insert was accepted, the key was found, the bool returned).

\* the random_key draws matter only when a node is constructed
Draws(D, needed) == IF needed THEN D.prios \X D.prios ELSE {<<0, 0>>}

\* the domains the arguments and the draws are taken from
One == [keys |-> Keys, prios |-> Prios]
Build == [keys |-> Keys2, prios |-> Prios]
Two == [keys |-> Keys2, prios |-> Prios2]

\* what an iterator refers to, as the caller sees it: the key at a node, and
\* MaxKey + 1 at the end iterator
Star(st, s, p) == IF IsNode(p) THEN KeyOf(st, s, p) ELSE MaxKey + 1

\* [first, last) is a range of the side: last is the end iterator or a position
\* not before first
ValidRange(st, c, s, first, last) ==
  IF last = end_side(st, c, s) THEN TRUE
  ELSE IF ~IsNode(first) THEN FALSE
  ELSE ~Less(KeyOf(st, s, last), KeyOf(st, s, first))

\* the positions of side s of container c, the end iterator included
Positions(st, c, s) == TreeNodes(st, c, s) \cup {end_side(st, c, s)}

\* insert needs a free node unless it rejects the pair
InsertCanRun(st, c, l, r) == IF InsertRejects(st, c, l, r) THEN TRUE ELSE CanAlloc(st)

\* at_left_or_default (s = "L") / at_right_or_default (s = "R") needs a free
\* node unless the key is found or a pair is evicted first
OrDefaultCanRun(st, c, s, key) ==
  IF find(st, c, s, key) # end_side(st, c, s) THEN TRUE
  ELSE IF find(st, c, Flip(s), Dflt) # end_side(st, c, Flip(s)) THEN TRUE
  ELSE CanAlloc(st)

Insert(c, D) ==
  /\ ~ub /\ c \in live
  /\ \E l \in D.keys, r \in D.keys :
       /\ InsertCanRun(St, c, l, r)
       /\ \E pp \in Draws(D, ~InsertRejects(St, c, l, r)) :
          \E res \in {insert(St, c, l, r, pp[1], pp[2])} :
            /\ Commit(res.st)
            /\ Called("insert", c, res.ret # end_side(St, c, "L"))
  /\ UNCHANGED live

EraseKey(c, s, D) ==
  /\ ~ub /\ c \in live
  /\ \E key \in D.keys :
       \E res \in {erase_key(St, c, s, key)} :
         /\ Commit(res.st)
         /\ Called(IF s = "L" THEN "erase_left_key" ELSE "erase_right_key", c, res.ret)
  /\ UNCHANGED live

EraseIt(c, s) ==
  /\ ~ub /\ c \in live
  /\ \E it \in TreeNodes(St, c, s) :
       \E res \in {erase_it(St, c, s, it)} :
         /\ Commit(res.st)
         /\ Called(IF s = "L" THEN "erase_left_it" ELSE "erase_right_it", c,
                   res.ret # end_side(St, c, s))
  /\ UNCHANGED live

EraseRange(c, s) ==
  /\ ~ub /\ c \in live
  /\ \E first \in Positions(St, c, s), last \in Positions(St, c, s) :
       /\ ValidRange(St, c, s, first, last)
       /\ \E res \in {erase_range(St, c, s, first, last)} :
            /\ Commit(res.st)
            /\ Called(IF s = "L" THEN "erase_left_range" ELSE "erase_right_range", c,
                      first # last)
  /\ UNCHANGED live

Clear(c) ==
  /\ ~ub /\ c \in live
  /\ Commit(clear(St, c))
  /\ Called("clear", c, ~empty(St, c))
  /\ UNCHANGED live

At(c, s, D) ==
  /\ ~ub /\ c \in live
  /\ \E key \in D.keys :
       Called(IF s = "L" THEN "at_left" ELSE "at_right", c, at(St, c, s, key).found)
  /\ UNCHANGED <<alloc, lkey, rkey, hp, root, size, live, ub>>

AtLeftOrDefault(c, D) ==
  /\ ~ub /\ c \in live
  /\ \E key \in D.keys :
       /\ OrDefaultCanRun(St, c, "L", key)
       /\ \E pp \in Draws(D, find_left(St, c, key) = end_side(St, c, "L")) :
          \E res \in {at_left_or_default(St, c, key, pp[1], pp[2])} :
            /\ Commit(res.st)
            /\ Called("at_left_or_default", c, find_left(St, c, key) # end_side(St, c, "L"))
  /\ UNCHANGED live

AtRightOrDefault(c, D) ==
  /\ ~ub /\ c \in live
  /\ \E key \in D.keys :
       /\ OrDefaultCanRun(St, c, "R", key)
       /\ \E pp \in Draws(D, find_right(St, c, key) = end_side(St, c, "R")) :
          \E res \in {at_right_or_default(St, c, key, pp[1], pp[2])} :
            /\ Commit(res.st)
            /\ Called("at_right_or_default", c, find_right(St, c, key) # end_side(St, c, "R"))
  /\ UNCHANGED live

LowerBound(c, s, D) ==
  /\ ~ub /\ c \in live
  /\ \E key \in D.keys :
       \E res \in {lower_bound_side(St, c, s, key)} :
         /\ Commit(res.st)
         /\ Called(IF s = "L" THEN "lower_bound_left" ELSE "lower_bound_right", c,
                   res.ret # end_side(St, c, s))
  /\ UNCHANGED live

UpperBound(c, s, D) ==
  /\ ~ub /\ c \in live
  /\ \E key \in D.keys :
       \E res \in {upper_bound_side(St, c, s, key)} :
         /\ Commit(res.st)
         /\ Called(IF s = "L" THEN "upper_bound_left" ELSE "upper_bound_right", c,
                   res.ret # end_side(St, c, s))
  /\ UNCHANGED live

\* the random_key draws of n inserts
PrioSeqs(D, n) == [1..n -> D.prios \X D.prios]

\* the copy loop constructs at most one node for each node of o's left tree
CopyFits(st, o) == Cardinality(st.alloc) + Cardinality(TreeNodes(st, o, "L")) <= MaxNodes

Construct(c) ==
  /\ ~ub /\ c \notin live
  /\ Commit(construct(St, c))
  /\ Called("construct", c, TRUE)
  /\ live' = live \cup {c}

CopyConstruct(c, o, D) ==
  /\ ~ub /\ c \notin live /\ o \in live
  /\ CopyFits(St, o)
  /\ \E ps \in PrioSeqs(D, Cardinality(TreeNodes(St, o, "L"))) : \E fail \in 0..Len(ps) :
       /\ Commit(copy_construct(St, c, o, ps, fail))
       /\ Called2(IF fail = 0 THEN "copy_construct" ELSE "copy_construct_bad_alloc", c, o,
                  ~empty(St, o))
  /\ live' = live \cup {c}

MoveConstruct(c, o) ==
  /\ ~ub /\ c \notin live /\ o \in live
  /\ Commit(move_construct(St, c, o))
  /\ Called2("move_construct", c, o, ~empty(St, o))
  /\ live' = live \cup {c}

\* c = o for two distinct containers; self-assignment returns at once
CopyAssign(c, o, D) ==
  /\ ~ub /\ c \in live /\ o \in live /\ c # o
  /\ IF AssignReturnsEarly(St, c, o) THEN TRUE ELSE CopyFits(clear(St, c), o)
  /\ \E ps \in PrioSeqs(D, IF AssignReturnsEarly(St, c, o) THEN 0
                        ELSE Cardinality(TreeNodes(St, o, "L"))) : \E fail \in 0..Len(ps) :
       /\ Commit(copy_assign(St, c, o, ps, fail))
       /\ Called2(IF fail = 0 THEN "copy_assign" ELSE "copy_assign_bad_alloc", c, o,
                  ~empty(St, o))
  /\ UNCHANGED live

\* c = std::move(o) for two distinct containers
MoveAssign(c, o) ==
  /\ ~ub /\ c \in live /\ o \in live /\ c # o
  /\ Commit(move_assign(St, c, o))
  /\ Called2("move_assign", c, o, ~empty(St, o))
  /\ UNCHANGED live

Swap(c, o) ==
  /\ ~ub /\ c \in live /\ o \in live /\ c # o
  /\ Commit(swap(St, c, o))
  /\ Called2("swap", c, o, TRUE)
  /\ UNCHANGED live

\* c == o
Equals(c, o) ==
  /\ ~ub /\ c \in live /\ o \in live /\ c # o
  /\ \E res \in {equal(St, c, o)} :
       /\ ub' = res.ub
       /\ Called2("equal", c, o, res.ret)
  /\ UNCHANGED <<alloc, lkey, rkey, hp, root, size, live>>

\* one container, every operation that involves no other container
Next ==
  \/ Insert(1, One)
  \/ EraseKey(1, "L", One)
  \/ EraseKey(1, "R", One)
  \/ EraseIt(1, "L")
  \/ EraseIt(1, "R")
  \/ EraseRange(1, "L")
  \/ EraseRange(1, "R")
  \/ Clear(1)
  \/ At(1, "L", One)
  \/ At(1, "R", One)
  \/ AtLeftOrDefault(1, One)
  \/ AtRightOrDefault(1, One)
  \/ LowerBound(1, "L", One)
  \/ LowerBound(1, "R", One)
  \/ UpperBound(1, "L", One)
  \/ UpperBound(1, "R", One)

Spec == Init /\ [][Next]_vars

\* no operation of a single container has undefined behaviour
NoUB == ~ub

\* two containers filled by inserts alone, and compared
NextBuild ==
  \/ Construct(2)
  \/ Insert(1, Build)
  \/ Insert(2, Build)
  \/ Equals(1, 2)
  \/ Equals(2, 1)

SpecBuild == Init /\ [][NextBuild]_vars

\* two containers, the second one default- or copy-constructed, with inserts,
\* erases and copy assignment in both directions
NextCopy ==
  \/ Construct(2)
  \/ CopyConstruct(2, 1, Two)
  \/ Insert(1, Two)
  \/ Insert(2, Two)
  \/ EraseKey(1, "L", Two)
  \/ EraseKey(2, "R", Two)
  \/ Clear(1)
  \/ Clear(2)
  \/ CopyAssign(1, 2, Two)
  \/ CopyAssign(2, 1, Two)
  \/ Equals(1, 2)

SpecCopy == Init /\ [][NextCopy]_vars

\* the calls that leave _size and the number of nodes within the ranges kept
SizeCapped ==
  /\ \A c \in Containers : size'[c] + 1 \in 0..(MaxSize + 1)
  /\ Cardinality(alloc') <= MaxNodes2

\* two containers and every way to make one from the other
NextMulti ==
  \/ Construct(2)
  \/ CopyConstruct(2, 1, Two)
  \/ MoveConstruct(2, 1)
  \/ Insert(1, Two) /\ SizeCapped
  \/ Insert(2, Two) /\ SizeCapped
  \/ EraseKey(1, "L", Two) /\ SizeCapped
  \/ EraseKey(2, "R", Two) /\ SizeCapped
  \/ Clear(1) /\ SizeCapped
  \/ Clear(2) /\ SizeCapped
  \/ AtLeftOrDefault(1, Two) /\ SizeCapped
  \/ AtRightOrDefault(2, Two) /\ SizeCapped
  \/ CopyAssign(1, 2, Two) /\ SizeCapped
  \/ CopyAssign(2, 1, Two) /\ SizeCapped
  \/ MoveAssign(1, 2)
  \/ MoveAssign(2, 1)
  \/ Swap(1, 2)

SpecMulti == Init /\ [][NextMulti]_vars

\* ------------------------------------------------- what a container holds
\* the pairs visible through the L-tree and through the R-tree of container c
Pairs(st, c) == {<<st.lkey[n], st.rkey[n]>> : n \in TreeNodes(st, c, "L")}
PairsR(st, c) == {<<st.lkey[n], st.rkey[n]>> : n \in TreeNodes(st, c, "R")}

\* the node of side s of container c that holds the key, as a set (empty when
\* no node does)
Holding(st, c, s, key) == {n \in TreeNodes(st, c, s) : KeyOf(st, s, n) = key}

\* the position of the least key of side s greater than key: the end iterator
\* when there is none
Successor(st, c, s, key) ==
  LET above == {n \in TreeNodes(st, c, s) : Less(key, KeyOf(st, s, n))}
  IN IF above = {} THEN end_side(st, c, s)
     ELSE CHOOSE n \in above : \A m \in above : ~Less(KeyOf(st, s, m), KeyOf(st, s, n))

\* the positions ++ visits from p until it leaves the nodes, that last
\* position included
RECURSIVE Forward(_, _, _)
Forward(T, p, fuel) ==
  IF ~IsNode(p) \/ fuel = 0 THEN <<p>> ELSE <<p>> \o Forward(T, inc(T, p), fuel - 1)

\* the positions -- visits in n steps from p, p excluded
RECURSIVE Backward(_, _, _)
Backward(T, p, n) ==
  IF n <= 0 \/ p = NULL THEN <<>>
  ELSE <<dec(T, p)>> \o Backward(T, dec(T, p), n - 1)

Reverse(q) == [i \in 1..Len(q) |-> q[Len(q) + 1 - i]]

\* ------------------------------------------------------------------ claims

\* C1: in every state reached from the empty container by insert, erase (key,
\* iterator, range), at_*_or_default, lower/upper_bound and clear, the nodes
\* reachable from the L-tree root are those reachable from the R-tree root,
\* and size() is their number.
C1_TreesAgree ==
  /\ TreeNodes(St, 1, "L") = TreeNodes(St, 1, "R")
  /\ size[1] = Cardinality(TreeNodes(St, 1, "L"))

\* C1 witness: an iterator erase has just left two pairs behind
C1_Witness ==
  /\ call.op = "erase_right_it"
  /\ size[1] = 2
  /\ Cardinality(TreeNodes(St, 1, "R")) = 2

\* two keys compare equal: neither is less than the other
Equiv(a, b) == ~Less(a, b) /\ ~Less(b, a)

\* the live pairs of container c are pairwise distinct on both sides
C2_UniqueIn(c) ==
  LET N == TreeNodes(St, c, "L") \cup TreeNodes(St, c, "R")
  IN \A m \in N, n \in N :
       m # n => ~Equiv(lkey[m], lkey[n]) /\ ~Equiv(rkey[m], rkey[n])

\* C2: in every state reached by insert, erase, at_*_or_default, clear, swap,
\* copy and move construction and assignment on two containers, with defined
\* behaviour so far, no container holds two pairs whose L-keys compare equal
\* nor two pairs whose R-keys compare equal.
C2_Unique == ~ub => \A c \in live : C2_UniqueIn(c)

\* C3: insert(l, r) where l is on the L side or r is on the R side of a
\* non-empty container returns end_left(), allocates nothing and leaves the
\* whole state (size, pairs, both trees) as it was.
C3_RejectedInsert ==
  \A l \in Keys, r \in Keys, pl \in Prios, pr \in Prios :
    (Holding(St, 1, "L", l) # {} \/ Holding(St, 1, "R", r) # {})
      => insert(St, 1, l, r, pl, pr) = [st |-> St, ret |-> end_side(St, 1, "L")]

\* C3 witness: an insert has just been rejected by a container holding pairs
C3_Witness ==
  /\ call.op = "insert"
  /\ ~call.flag
  /\ Pairs(St, 1) # {}
  /\ \E l \in Keys : Holding(St, 1, "L", l) = {} /\ Holding(St, 1, "R", Dflt) # {}

\* erase_left(k) / erase_right(k) applied to the current state
C4_EraseKeyOn(s, k) ==
  LET res == erase_key(St, 1, s, k)
      hit == {pr \in Pairs(St, 1) : (IF s = "L" THEN pr[1] ELSE pr[2]) = k}
  IN /\ res.ret = (hit # {})
     /\ hit = {} => res.st = St
     /\ hit # {} =>
          /\ \A pr \in hit :
               /\ find_left(res.st, 1, pr[1]) = end_side(res.st, 1, "L")
               /\ find_right(res.st, 1, pr[2]) = end_side(res.st, 1, "R")
          /\ res.st.size[1] = size[1] - 1
          /\ Pairs(res.st, 1) = Pairs(St, 1) \ hit
          /\ PairsR(res.st, 1) = Pairs(St, 1) \ hit
          /\ Cardinality(hit) = 1
          /\ ~res.st.ub

\* C4: erase_left(k) / erase_right(k) returns true iff k was present; then the
\* whole pair is gone from both sides, size() is one less and every other
\* pair is still on both sides; when it returns false nothing has changed.
C4_EraseKey == \A s \in Sides, k \in Keys : C4_EraseKeyOn(s, k)

\* C4 witness: an erase by key has just removed a pair and left another
C4_Witness ==
  /\ call.op = "erase_left_key"
  /\ call.flag
  /\ Pairs(St, 1) # {}

\* erase_left(it) / erase_right(it) applied to the current state
C5_EraseItOn(s, it) ==
  LET res == erase_it(St, 1, s, it)
  IN /\ res.ret = Successor(St, 1, s, KeyOf(St, s, it))
     /\ res.ret \in Positions(res.st, 1, s)
     /\ ~res.st.ub

\* C5: for every valid non-end iterator it, erase_left(it) / erase_right(it)
\* returns the position of the in-order successor of *it on that side (the
\* end iterator when *it was the largest), a position of the tree as it is
\* after the erase.
C5_EraseReturnsNext == \A s \in Sides : \A it \in TreeNodes(St, 1, s) : C5_EraseItOn(s, it)

\* C5 witness: an iterator erase has just returned a position that is not the
\* end, with three pairs before it
C5_Witness ==
  /\ call.op = "erase_left_it"
  /\ call.flag
  /\ size[1] = 2

\* the traversal of side s of the current state
C6_TraversalOn(s) ==
  LET T == View(St, s)
      fw == Forward(T, begin(T, 1), MaxNodes + 1)
      bw == Backward(T, end(T, 1), size[1])
      n == Len(fw) - 1
  IN /\ n = size[1]
     /\ fw[n + 1] = end(T, 1)
     /\ \A i \in 1..n : fw[i] \in TreeNodes(St, 1, s)
     /\ \A i \in 1..(n - 1) : Less(T.k[fw[i]], T.k[fw[i + 1]])
     /\ bw = Reverse(SubSeq(fw, 1, n))

\* C6: iterating a side from begin with ++ visits exactly size() elements in
\* strictly increasing key order and then equals end; iterating from end with
\* -- visits the same elements in reverse.
C6_Traversal == \A s \in Sides : C6_TraversalOn(s)

\* C6 witness: a full container, after a bound query has rebuilt a seam
C6_Witness ==
  /\ call.op = "upper_bound_left"
  /\ size[1] = MaxKey + 1
  /\ \E n \in Nodes : hp["L"][n].left # NULL /\ hp["L"][n].right # NULL

\* at_left_or_default (s = "L") / at_right_or_default (s = "R") of key applied
\* to the current state, with the draws pl, pr.  other(pr) is the component of
\* a pair on the opposite side, mine(pr) the one on the queried side.
C7_OrDefaultOn(s, key, pl, pr) ==
  LET res == IF s = "L" THEN at_left_or_default(St, 1, key, pl, pr)
             ELSE at_right_or_default(St, 1, key, pl, pr)
      mine(x) == IF s = "L" THEN x[1] ELSE x[2]
      other(x) == IF s = "L" THEN x[2] ELSE x[1]
      hit == {x \in Pairs(St, 1) : mine(x) = key}
      evicted == {x \in Pairs(St, 1) : other(x) = Dflt}
      added == IF s = "L" THEN <<key, Dflt>> ELSE <<Dflt, key>>
  IN /\ hit # {} => /\ res.st = St
                    /\ \E x \in hit : res.ret = other(x)
     /\ hit = {} => /\ Pairs(res.st, 1) = (Pairs(St, 1) \ evicted) \cup {added}
                    /\ PairsR(res.st, 1) = Pairs(res.st, 1)
                    /\ res.ret = Dflt
                    /\ res.st.size[1] = Cardinality(Pairs(res.st, 1))
                    /\ Cardinality(TreeNodes(res.st, 1, "L")) = res.st.size[1]
                    /\ ~res.st.ub

\* C7: at_left_or_default(k) returns the paired value and changes nothing when
\* k is present; otherwise (k, default) is added and returned, the pair that
\* held the default (if any) is gone from both sides, no other pair is added
\* or removed, and size() is the number of pairs.  Symmetric on the R side.
C7_OrDefault ==
  \A s \in Sides, key \in Keys, pl \in Prios, pr \in Prios :
    OrDefaultCanRun(St, 1, s, key) => C7_OrDefaultOn(s, key, pl, pr)

\* C7 witness: at_left_or_default has just inserted (k, default) for an absent
\* key k beside a pair it left alone
C7_Witness ==
  /\ call.op = "at_left_or_default"
  /\ ~call.flag
  /\ size[1] = 2
  /\ \E n \in TreeNodes(St, 1, "L") : lkey[n] # Dflt /\ rkey[n] = Dflt

\* at_left (s = "L") / at_right (s = "R") of key applied to the current state
C8_AtOn(s, key) ==
  LET res == at(St, 1, s, key)
      hit == {x \in Pairs(St, 1) : (IF s = "L" THEN x[1] ELSE x[2]) = key}
  IN /\ res.found = (hit # {})
     /\ res.found => \E x \in hit : res.ret = (IF s = "L" THEN x[2] ELSE x[1])

\* C8: at_left(k) / at_right(k) returns the value paired with k when k is
\* present and throws std::out_of_range exactly when it is absent; the call
\* changes neither the pairs nor the size (nor any link).
C8_At ==
  /\ [](\A s \in Sides, key \in Keys : C8_AtOn(s, key))
  /\ [][call'.op \in {"at_left", "at_right"}
        => UNCHANGED <<alloc, lkey, rkey, hp, root, size>>]_vars

\* C8 witness: at_right has just thrown on a container that holds pairs
C8_Witness ==
  /\ call.op = "at_right"
  /\ ~call.flag
  /\ size[1] = 2

\* C9: two containers filled by inserts alone, in any orders and with any
\* random_key draws, compare equal (in both directions, with defined
\* behaviour) exactly when they hold the same set of pairs.
C9_EqualBuilt ==
  live = {1, 2} =>
    /\ equal(St, 1, 2) = [ret |-> Pairs(St, 1) = Pairs(St, 2), ub |-> FALSE]
    /\ equal(St, 2, 1) = [ret |-> Pairs(St, 1) = Pairs(St, 2), ub |-> FALSE]

\* C9 witness: operator== has just returned true for two containers of two
\* pairs whose L-trees have different keys at the root
C9_Witness ==
  /\ call.op = "equal"
  /\ call.flag
  /\ size[1] = 2
  /\ Pairs(St, 1) = Pairs(St, 2)
  /\ lkey[root["L"][1]] # lkey[root["L"][2]]

\* what the claim states of a state st in which c has become a copy of o, the
\* state before being St
C10_IsCopy(st, c, o) ==
  /\ ~st.ub
  /\ Pairs(st, c) = Pairs(St, o)
  /\ PairsR(st, c) = Pairs(St, o)
  /\ st.size[c] = St.size[o]
  /\ equal(st, c, o) = [ret |-> TRUE, ub |-> FALSE]
  /\ Pairs(st, o) = Pairs(St, o)
  /\ PairsR(st, o) = PairsR(St, o)
  /\ st.size[o] = St.size[o]
  /\ \A key \in Keys2 :
       LET later == erase_key(st, c, "L", key).st
       IN Pairs(later, o) = Pairs(St, o) /\ later.size[o] = St.size[o]

\* C10: after copy construction of c from o, and after the copy assignment
\* c = o for any two containers (no allocation failing), c holds exactly the pairs of o with o's size
\* and compares equal to o, o is unchanged, and an erase on c leaves o alone.
C10_Copy ==
  /\ \A c \in Containers \ live, o \in live :
       CopyFits(St, o) =>
         \A ps \in PrioSeqs(Build, Cardinality(TreeNodes(St, o, "L"))) :
           C10_IsCopy(copy_construct(St, c, o, ps, 0), c, o)
  /\ \A c \in live, o \in live :
       (c # o /\ CopyFits(clear(St, c), o)) =>
         \A ps \in PrioSeqs(Build, Cardinality(TreeNodes(St, o, "L"))) :
           C10_IsCopy(copy_assign(St, c, o, ps, 0), c, o)

\* what the claim states of a state st in which a copy of o into c has met a
\* failed allocation, the state before being St: c is empty on both sides with
\* size 0, no node of c is left allocated, and o is as it was
C11_RolledBack(st, c, o) ==
  /\ ~st.ub
  /\ st.size[c] = 0
  /\ st.root["L"][c] = NULL
  /\ st.root["R"][c] = NULL
  /\ st.alloc = St.alloc \ (IF c \in live THEN TreeNodes(St, c, "L") ELSE {})
  /\ \A n \in st.alloc :
       /\ st.lkey[n] = St.lkey[n] /\ st.rkey[n] = St.rkey[n]
       /\ st.hp["L"][n] = St.hp["L"][n] /\ st.hp["R"][n] = St.hp["R"][n]
  /\ st.root["L"][o] = St.root["L"][o]
  /\ st.root["R"][o] = St.root["R"][o]
  /\ st.size[o] = St.size[o]

\* C11: when the `new` of any insert step of a copy construction or of a copy
\* assignment throws, the call ends with the target empty (size 0, both trees
\* empty, every node of the target freed) and the source unchanged.
C11_AllOrNothing ==
  /\ \A c \in Containers \ live, o \in live :
       CopyFits(St, o) =>
         \A ps \in PrioSeqs(Build, Cardinality(TreeNodes(St, o, "L"))) : \A fail \in 1..Len(ps) :
           C11_RolledBack(copy_construct(St, c, o, ps, fail), c, o)
  /\ \A c \in live, o \in live :
       (c # o /\ ~empty(St, o) /\ CopyFits(clear(St, c), o)) =>
         \A ps \in PrioSeqs(Build, Cardinality(TreeNodes(St, o, "L"))) : \A fail \in 1..Len(ps) :
           C11_RolledBack(copy_assign(St, c, o, ps, fail), c, o)

\* C11 witness: a copy assignment from a source of two pairs has just met a
\* failed allocation and left its target empty
C11_Witness ==
  /\ call.op = "copy_assign_bad_alloc"
  /\ size[call.o] = 2
  /\ size[call.c] = 0
  /\ root["L"][call.c] = NULL

\* what the claim states of a state st in which o has been moved into c, the
\* state before being St
C12_Moved(st, c, o) ==
  /\ ~st.ub
  /\ Pairs(st, c) = Pairs(St, o)
  /\ PairsR(st, c) = PairsR(St, o)
  /\ st.size[c] = St.size[o]
  /\ st.size[o] = 0
  /\ empty(st, o)
  /\ begin_side(st, o, "L") = end_side(st, o, "L")

\* C12: after the move construction of c from o, and after the move
\* assignment c = std::move(o) for any two containers, c holds exactly the
\* pairs o held with o's former size, and o is empty: size 0, empty() true,
\* begin_left() == end_left().
C12_Move ==
  ~ub =>
    /\ \A c \in Containers \ live, o \in live : C12_Moved(move_construct(St, c, o), c, o)
    /\ \A c \in live, o \in live : c # o => C12_Moved(move_assign(St, c, o), c, o)

\* what the claim states of the state st after a.swap(b), the state before
\* being St
C13_Swapped(st, a, b) ==
  /\ ~st.ub
  /\ Pairs(st, a) = Pairs(St, b) /\ PairsR(st, a) = PairsR(St, b)
  /\ Pairs(st, b) = Pairs(St, a) /\ PairsR(st, b) = PairsR(St, a)
  /\ st.size[a] = St.size[b]
  /\ st.size[b] = St.size[a]
  /\ st.size[a] = Cardinality(TreeNodes(st, a, "L"))
  /\ st.size[b] = Cardinality(TreeNodes(st, b, "L"))

\* C13: a.swap(b) exchanges the pairs of the two containers, and afterwards
\* size() of each is the number of pairs it holds: a.size() is b's former size
\* and b.size() is a's.
C13_Swap ==
  ~ub => \A a \in live, b \in live : a # b => C13_Swapped(swap(St, a, b), a, b)

\* C14: for every key k, stored or not, upper_bound_left(k) /
\* upper_bound_right(k) returns the position of the smallest stored key
\* greater than k, or the end iterator when there is none.
C14_UpperBound ==
  \A s \in Sides, key \in Keys :
    upper_bound_side(St, 1, s, key).ret = Successor(St, 1, s, key)

\* the position of the smallest key of side s that is not less than key: the
\* end iterator when there is none
Ceiling(st, c, s, key) ==
  IF Holding(st, c, s, key) # {} THEN CHOOSE n \in Holding(st, c, s, key) : TRUE
  ELSE Successor(st, c, s, key)

\* C15: for every key k, stored or not, lower_bound_left(k) /
\* lower_bound_right(k) returns the position of the smallest stored key not
\* less than k, or the end iterator when every stored key is less than k.
C15_LowerBound ==
  \A s \in Sides, key \in Keys :
    lower_bound_side(St, 1, s, key).ret = Ceiling(St, 1, s, key)

\* C15 witness: lower_bound_right has just returned a position that is not
\* the end, for a key that is not stored, in a container of two pairs
C15_Witness ==
  /\ call.op = "lower_bound_right"
  /\ call.flag
  /\ size[1] = 2
  /\ \E key \in Keys : Holding(St, 1, "R", key) = {} /\ IsNode(Ceiling(St, 1, "R", key))

\* the sentinel of side s of container c, when that tree is not empty
C16_SentinelOf(c, s) ==
  LET T == View(St, s)
      last == rightmost(T, root[s][c])
  IN /\ ParentOf(T, root[s][c]) = head_node(c)
     /\ inc(T, last) = end_side(St, c, s)
     /\ erase_it(St, c, s, last).ret = end_side(St, c, s)

\* C16: in every state reached by the public operations on two containers,
\* move construction, move assignment, copy and swap included, with defined
\* behaviour so far, the root of each non-empty tree has the head node of
\* the container that owns it as its parent, ++ from the largest element is
\* that container's end iterator, and erasing the largest element returns it.
C16_Sentinel ==
  ~ub => \A c \in live, s \in Sides : root[s][c] # NULL => C16_SentinelOf(c, s)

\* the tree of side s of container 1 is a binary search tree, a max-heap by
\* random_key, and its parent links mirror its child links
C17_TreapOf(s) ==
  LET T == View(St, s)
      seq == InOrder(T, root[s][1])
      kids(n) == {T.h[n].left, T.h[n].right} \ {NULL}
  IN /\ \A i \in 1..(Len(seq) - 1) : Less(T.k[seq[i]], T.k[seq[i + 1]])
     /\ \A n \in TreeNodes(St, 1, s) :
          /\ \A m \in Reach(T, T.h[n].left) : Less(T.k[m], T.k[n])
          /\ \A m \in Reach(T, T.h[n].right) : Less(T.k[n], T.k[m])
          /\ \A m \in kids(n) : T.h[m].prio <= T.h[n].prio
          /\ \A m \in kids(n) : T.h[m].parent = n

\* C17: after any sequence of treap inserts, removes of present keys,
\* lower_bound and upper_bound, each tree is a binary search tree under its
\* ordering and a max-heap by priority, and each non-root node's parent link
\* points to the node whose left or right link points to it.
C17_Treap == \A s \in Sides : C17_TreapOf(s)

\* C17 witness: lower_bound has just rebuilt the right tree of three nodes, in
\* which a node has two children and the priorities differ
C17_Witness ==
  /\ call.op = "lower_bound_right"
  /\ size[1] = 3
  /\ \E n \in Nodes : hp["R"][n].left # NULL /\ hp["R"][n].right # NULL
  /\ \E n \in TreeNodes(St, 1, "R") : hp["R"][n].prio # hp["R"][root["R"][1]].prio

\* C18: lower_bound and upper_bound change nothing: for every key, the pairs,
\* the size, the roots and every node's left, right and parent links are the
\* same after the call as before, equal priorities included.
C18_BoundsReadOnly ==
  \A s \in Sides, key \in Keys :
    /\ lower_bound_side(St, 1, s, key).st = St
    /\ upper_bound_side(St, 1, s, key).st = St

\* C18 witness: upper_bound has just run on a side of three nodes, two of
\* which have equal priorities and are parent and child
C18_Witness ==
  /\ call.op = "upper_bound_right"
  /\ size[1] = 3
  /\ \E n \in TreeNodes(St, 1, "R") :
       /\ hp["R"][n].left # NULL
       /\ hp["R"][hp["R"][n].left].prio = hp["R"][n].prio

\* treap::remove(key) applied to the tree of side s in the current state, for
\* a key that is not stored in it
C19_RemoveAbsentOn(s, key) ==
  LET T == View(St, s)
      res == treap_remove(T, 1, key)
      kids(n) == {res.T.h[n].left, res.T.h[n].right} \ {NULL}
  IN /\ ~res.ub
     /\ res.ret = head_node(1)
     /\ Reach(res.T, res.T.rt[1]) = TreeNodes(St, 1, s)
     /\ \A n \in TreeNodes(St, 1, s) : \A m \in kids(n) : res.T.h[m].parent = n
     /\ res.T.rt[1] # NULL => res.T.h[res.T.rt[1]].parent = head_node(1)

\* C19: treap remove(key) for a key that is not stored (between stored keys,
\* smaller than all, greater than all, or any key on an empty tree) fails in
\* no way, returns the end iterator and leaves the same nodes reachable from
\* the root with the parent links intact.
C19_RemoveAbsent ==
  \A s \in Sides, key \in Keys :
    Holding(St, 1, s, key) = {} => C19_RemoveAbsentOn(s, key)

\* treap::remove(key) applied to the tree of side s in the current state, for
\* the key of the node n of that tree
C20_RemovePresentOn(s, n) ==
  LET T == View(St, s)
      res == treap_remove(T, 1, T.k[n])
  IN /\ ~res.ub
     /\ Reach(res.T, res.T.rt[1]) = TreeNodes(St, 1, s) \ {n}
     /\ res.ret = Successor(St, 1, s, T.k[n])

\* C20: treap remove(key) for a stored key removes exactly the node holding
\* it and returns the position of the smallest remaining key greater than it,
\* or the end iterator when it was the largest, for every tree shape.
C20_RemoveReturnsNext ==
  \A s \in Sides : \A n \in TreeNodes(St, 1, s) : C20_RemovePresentOn(s, n)

====
